---- MODULE Spec2Model ----
(***************************************************************************)
(* A model of two parts of the AsFem sources:                              *)
(*   - NonlinearSolver::Init (src/unnamed/part_000), which configures a    *)
(*     PETSc SNES object from a NonlinearSolverBlock;                      *)
(*   - the dense MatrixXd class (src/unnamed/part_001, lines 114-501).     *)
(* The PETSc objects are external: the model records every PETSc call      *)
(* Init makes, with the handle it targets and the arguments it passes.     *)
(***************************************************************************)
EXTENDS Integers, Sequences, FiniteSets, TLC

VARIABLES
    \* ---- NonlinearSolver (part_000) ----
    _SolverType, _MaxIters, _RAbsTol, _RRelTol, _STol, \* members set at 14-18
    _snes, _ksp, _pc, _linesearch, \* PETSc handles; 0 = never assigned
    nsnes,      \* number of SNES objects created so far (SNESCreate calls)
    block,      \* the NonlinearSolverBlock given to the most recent Init
    calls,      \* the PETSc calls made by the most recent Init, in order
    initStatus, \* "none", "returned" (Init came back) or "crash"
    \* ---- MatrixXd (part_001) ----
    mat,        \* the matrix the calls are made on: _vals, _M, _N, _MN
    call,       \* the call made last on mat (name and arguments)
    pre,        \* mat as it was when that call was made
    ret,        \* what that call returned
    status,     \* "ok", "exit" (AsFem_Exit was called) or "crash"
    msg,        \* the text given to PrintErrorTxt by that call, "" if none
    oob,        \* that call touched _vals outside its buffer
    eigen       \* the Eigen routine that call handed the matrix to, or ""

solverVars == <<_SolverType, _MaxIters, _RAbsTol, _RRelTol, _STol,
                _snes, _ksp, _pc, _linesearch, nsnes, block, calls,
                initStatus>>

matrixVars == <<mat, call, pre, ret, status, msg, oob, eigen>>

vars == <<solverVars, matrixVars>>

-----------------------------------------------------------------------------
(***************************************************************************)
(*                         Bounds of the model                             *)
(***************************************************************************)
\* Init calls made on one engine (the second one runs on a used engine).
MaxInits == 2
\* Largest line-search order a block carries (orders 1..MaxOrder).
MaxOrder == 3
\* Largest number of elements m*n of a matrix, and largest dimension.
MaxLen == 4

-----------------------------------------------------------------------------
(***************************************************************************)
(*               NonlinearSolver::Init  (part_000, 13-205)                 *)
(***************************************************************************)
\* The enumerators Init compares _SolverType with (lines 43-183).
RecognisedSolverTypes ==
    {"NewtonRaphson", "SNESNewtonLs", "SNESNewtonTr", "SNESLBfgs",
     "SNESBroyden", "SNESBadBroyden", "SNESNewtonCG", "SNESNewtonGMRES"}

\* The enumerators Init compares _LineSearchType with (lines 47-59).
RecognisedLineSearchTypes ==
    {"LineSearchDefault", "LineSearchBackTrace", "LineSearchCP",
     "LineSearchL2", "LineSearchBasic"}

\* A tag value that matches none of the comparisons of Init.
SolverTypes == RecognisedSolverTypes \cup {"OtherSolverType"}
LineSearchTypes == RecognisedLineSearchTypes \cup {"OtherLineSearchType"}

\* Sample tolerances of a block: reals are kept as the literals they are
\* written with, since Init only passes them on.
ToleranceSets ==
    { [_MaxIters |-> 25, _RAbsTol |-> "7.0e-8", _RRelTol |-> "1.0e-9",
       _STol |-> "2.0e-16"],
      [_MaxIters |-> 50, _RAbsTol |-> "4.5e-8", _RRelTol |-> "5.0e-10",
       _STol |-> "1.0e-15"] }

\* The NonlinearSolverBlock values Init is called with.
Blocks ==
    { [_SolverType |-> st, _LineSearchType |-> lt, _LineSearchOrder |-> o,
       _MaxIters |-> t._MaxIters, _RAbsTol |-> t._RAbsTol,
       _RRelTol |-> t._RRelTol, _STol |-> t._STol] :
      st \in SolverTypes, lt \in LineSearchTypes, o \in 1..MaxOrder,
      t \in ToleranceSets }

\* One PETSc call: the function, the handle it is given, and its arguments.
Call(fn, obj, type, reals, ints) ==
    [fn |-> fn, obj |-> obj, type |-> type, reals |-> reals, ints |-> ints]

\* Arguments of KSPSetTolerances / KSPGMRESSetRestart / SNESSetTolerances.
KSPMaxIts == 500000
KSPRestart == 1200
SNESMaxFuncs == -1

\* A faulty variant of SetupCalls: the absolute and relative tolerances of
\* SNESSetTolerances change places.
SetupCalls_SwappedTol(g, blk) ==
    << Call("SNESCreate", g, "", <<>>, <<>>),
       Call("SNESGetKSP", g, "", <<>>, <<>>),
       Call("KSPSetTolerances", g, "", <<"1.0e-10", "1.0e-10", "PETSC_DEFAULT">>,
            <<KSPMaxIts>>),
       Call("KSPGMRESSetRestart", g, "", <<>>, <<KSPRestart>>),
       Call("KSPGetPC", g, "", <<>>, <<>>),
       Call("PCSetType", g, "PCLU", <<>>, <<>>),
       Call("KSPSetFromOptions", g, "", <<>>, <<>>),
       Call("SNESSetTolerances", g, "",
            <<blk._RRelTol, blk._RAbsTol, blk._STol>>,
            <<blk._MaxIters, SNESMaxFuncs>>) >>

\* Lines 20-39: create the SNES, fetch and configure its KSP and PC, set the
\* SNES tolerances from the members copied at lines 14-18.
SetupCalls(g, blk) ==
    << Call("SNESCreate", g, "", <<>>, <<>>),
       Call("SNESGetKSP", g, "", <<>>, <<>>),
       Call("KSPSetTolerances", g, "", <<"1.0e-10", "1.0e-10", "PETSC_DEFAULT">>,
            <<KSPMaxIts>>),
       Call("KSPGMRESSetRestart", g, "", <<>>, <<KSPRestart>>),
       Call("KSPGetPC", g, "", <<>>, <<>>),
       Call("PCSetType", g, "PCLU", <<>>, <<>>),
       Call("KSPSetFromOptions", g, "", <<>>, <<>>),
       Call("SNESSetTolerances", g, "",
            <<blk._RAbsTol, blk._RRelTol, blk._STol>>,
            <<blk._MaxIters, SNESMaxFuncs>>) >>

\* A faulty variant of SetTypeByTag: LineSearchDefault gives Basic whatever
\* the branch.
SetTypeByTag_DefaultBasic(ls, lt, dflt) ==
    IF lt = "LineSearchDefault" THEN
        << Call("SNESLineSearchSetType", ls, "SNESLINESEARCHBASIC", <<>>, <<>>) >>
    ELSE IF lt = "LineSearchBackTrace" THEN
        << Call("SNESLineSearchSetType", ls, "SNESLINESEARCHBT", <<>>, <<>>) >>
    ELSE IF lt = "LineSearchCP" THEN
        << Call("SNESLineSearchSetType", ls, "SNESLINESEARCHCP", <<>>, <<>>) >>
    ELSE IF lt = "LineSearchL2" THEN
        << Call("SNESLineSearchSetType", ls, "SNESLINESEARCHL2", <<>>, <<>>) >>
    ELSE IF lt = "LineSearchBasic" THEN
        << Call("SNESLineSearchSetType", ls, "SNESLINESEARCHBASIC", <<>>, <<>>) >>
    ELSE << >>

\* A faulty variant of SetTypeByTag: LineSearchCP gives L2.
SetTypeByTag_CPAsL2(ls, lt, dflt) ==
    IF lt = "LineSearchDefault" THEN
        << Call("SNESLineSearchSetType", ls, dflt, <<>>, <<>>) >>
    ELSE IF lt = "LineSearchBackTrace" THEN
        << Call("SNESLineSearchSetType", ls, "SNESLINESEARCHBT", <<>>, <<>>) >>
    ELSE IF lt = "LineSearchCP" THEN
        << Call("SNESLineSearchSetType", ls, "SNESLINESEARCHL2", <<>>, <<>>) >>
    ELSE IF lt = "LineSearchL2" THEN
        << Call("SNESLineSearchSetType", ls, "SNESLINESEARCHL2", <<>>, <<>>) >>
    ELSE IF lt = "LineSearchBasic" THEN
        << Call("SNESLineSearchSetType", ls, "SNESLINESEARCHBASIC", <<>>, <<>>) >>
    ELSE << >>

\* The if / else-if chain over _LineSearchType (lines 47-61; the same chain
\* is repeated at 68-82, 88-102, 108-122, 128-142, 148-162, 167-181 and
\* 186-200, each with its own type for LineSearchDefault).  A tag that
\* matches no comparison makes no call.
SetTypeByTag(ls, lt, dflt) ==
    IF lt = "LineSearchDefault" THEN
        << Call("SNESLineSearchSetType", ls, dflt, <<>>, <<>>) >>
    ELSE IF lt = "LineSearchBackTrace" THEN
        << Call("SNESLineSearchSetType", ls, "SNESLINESEARCHBT", <<>>, <<>>) >>
    ELSE IF lt = "LineSearchCP" THEN
        << Call("SNESLineSearchSetType", ls, "SNESLINESEARCHCP", <<>>, <<>>) >>
    ELSE IF lt = "LineSearchL2" THEN
        << Call("SNESLineSearchSetType", ls, "SNESLINESEARCHL2", <<>>, <<>>) >>
    ELSE IF lt = "LineSearchBasic" THEN
        << Call("SNESLineSearchSetType", ls, "SNESLINESEARCHBASIC", <<>>, <<>>) >>
    ELSE << >>

SetOrderCall(ls, blk) ==
    Call("SNESLineSearchSetOrder", ls, "", <<>>, <<blk._LineSearchOrder>>)

\* A faulty variant of BranchNewtonRaphson: the SNESLineSearchSetOrder of
\* line 62 is missing.
BranchNewtonRaphson_NoOrder(g, blk) ==
    << Call("SNESSetType", g, "SNESNEWTONLS", <<>>, <<>>),
       Call("SNESGetLineSearch", g, "", <<>>, <<>>) >>
    \o SetTypeByTag(g, blk._LineSearchType, "SNESLINESEARCHBASIC")

\* Lines 43-63.  g is the SNES created at line 20; the line search fetched
\* from it carries the same number.
BranchNewtonRaphson(g, blk) ==
    << Call("SNESSetType", g, "SNESNEWTONLS", <<>>, <<>>),
       Call("SNESGetLineSearch", g, "", <<>>, <<>>) >>
    \o SetTypeByTag(g, blk._LineSearchType, "SNESLINESEARCHBASIC")
    \o << SetOrderCall(g, blk) >>

\* Lines 64-84.
BranchSNESNewtonLs(g, blk) ==
    << Call("SNESSetType", g, "SNESNEWTONLS", <<>>, <<>>),
       Call("SNESGetLineSearch", g, "", <<>>, <<>>),
       Call("SNESLineSearchSetType", g, "SNESLINESEARCHL2", <<>>, <<>>) >>
    \o SetTypeByTag(g, blk._LineSearchType, "SNESLINESEARCHBT")
    \o << SetOrderCall(g, blk) >>

\* Lines 85-103.
BranchSNESNewtonTr(g, blk) ==
    << Call("SNESSetType", g, "SNESNEWTONTR", <<>>, <<>>),
       Call("SNESGetLineSearch", g, "", <<>>, <<>>) >>
    \o SetTypeByTag(g, blk._LineSearchType, "SNESLINESEARCHBASIC")

\* Lines 104-123.
BranchSNESLBfgs(g, blk) ==
    << Call("SNESSetType", g, "SNESQN", <<>>, <<>>),
       Call("SNESQNSetType", g, "SNES_QN_LBFGS", <<>>, <<>>),
       Call("SNESGetLineSearch", g, "", <<>>, <<>>) >>
    \o SetTypeByTag(g, blk._LineSearchType, "SNESLINESEARCHCP")

\* Lines 124-143.
BranchSNESBroyden(g, blk) ==
    << Call("SNESSetType", g, "SNESQN", <<>>, <<>>),
       Call("SNESQNSetType", g, "SNES_QN_BROYDEN", <<>>, <<>>),
       Call("SNESGetLineSearch", g, "", <<>>, <<>>) >>
    \o SetTypeByTag(g, blk._LineSearchType, "SNESLINESEARCHBASIC")

\* Lines 144-163.
BranchSNESBadBroyden(g, blk) ==
    << Call("SNESSetType", g, "SNESQN", <<>>, <<>>),
       Call("SNESQNSetType", g, "SNES_QN_BADBROYDEN", <<>>, <<>>),
       Call("SNESGetLineSearch", g, "", <<>>, <<>>) >>
    \o SetTypeByTag(g, blk._LineSearchType, "SNESLINESEARCHL2")

\* Lines 164-182.
BranchSNESNewtonCG(g, blk) ==
    << Call("SNESSetType", g, "SNESNCG", <<>>, <<>>),
       Call("SNESGetLineSearch", g, "", <<>>, <<>>) >>
    \o SetTypeByTag(g, blk._LineSearchType, "SNESLINESEARCHCP")

\* Lines 183-201.
BranchSNESNewtonGMRES(g, blk) ==
    << Call("SNESSetType", g, "SNESNGMRES", <<>>, <<>>),
       Call("SNESGetLineSearch", g, "", <<>>, <<>>) >>
    \o SetTypeByTag(g, blk._LineSearchType, "SNESLINESEARCHL2")

\* Lines 43-201: the dispatch over _SolverType; no branch for another tag.
DispatchCalls(g, blk) ==
    IF blk._SolverType = "NewtonRaphson" THEN BranchNewtonRaphson(g, blk)
    ELSE IF blk._SolverType = "SNESNewtonLs" THEN BranchSNESNewtonLs(g, blk)
    ELSE IF blk._SolverType = "SNESNewtonTr" THEN BranchSNESNewtonTr(g, blk)
    ELSE IF blk._SolverType = "SNESLBfgs" THEN BranchSNESLBfgs(g, blk)
    ELSE IF blk._SolverType = "SNESBroyden" THEN BranchSNESBroyden(g, blk)
    ELSE IF blk._SolverType = "SNESBadBroyden" THEN BranchSNESBadBroyden(g, blk)
    ELSE IF blk._SolverType = "SNESNewtonCG" THEN BranchSNESNewtonCG(g, blk)
    ELSE IF blk._SolverType = "SNESNewtonGMRES" THEN BranchSNESNewtonGMRES(g, blk)
    ELSE << >>

\* Has the sequence of calls fetched a line search (SNESGetLineSearch)?
FetchesLineSearch(cs) ==
    \E i \in 1..Len(cs) : cs[i].fn = "SNESGetLineSearch"

\* What the trailing call of line 203 can lead to, given the handle ls it
\* is passed.  A member no statement has assigned holds an indeterminate
\* value: passing it to PETSc stops the process, or the call comes back (its
\* return code is not looked at) and Init returns.
TrailingOutcomes(ls) ==
    IF ls = 0 THEN {"crash", "returned"} ELSE {"returned"}

\* The whole of Init (lines 13-205) for the block blk.  The trailing
\* SNESLineSearchSetOrder of line 203 is given whatever _linesearch holds:
\* the line search of this SNES when a branch fetched one, and otherwise the
\* value the member had before the call.
NonlinearSolverInit(blk) ==
    /\ nsnes < MaxInits
    /\ initStatus # "crash"
    /\ LET g  == nsnes + 1
           d  == DispatchCalls(g, blk)
           ls == IF FetchesLineSearch(d) THEN g ELSE _linesearch
       IN /\ _SolverType' = blk._SolverType
          /\ _MaxIters' = blk._MaxIters
          /\ _RAbsTol' = blk._RAbsTol
          /\ _RRelTol' = blk._RRelTol
          /\ _STol' = blk._STol
          /\ nsnes' = g
          /\ _snes' = g
          /\ _ksp' = g
          /\ _pc' = g
          /\ _linesearch' = ls
          /\ calls' = SetupCalls(g, blk) \o d \o << SetOrderCall(ls, blk) >>
          /\ initStatus' \in TrailingOutcomes(ls)
          /\ block' = blk

\* A NonlinearSolver on which Init has not run.  The constructor is not
\* part of the sources; the members are taken as holding no meaningful
\* value and the handles as never assigned.
NoBlock ==
    [_SolverType |-> "", _LineSearchType |-> "", _LineSearchOrder |-> 0,
     _MaxIters |-> 0, _RAbsTol |-> "", _RRelTol |-> "", _STol |-> ""]

SolverInit ==
    /\ _SolverType = ""
    /\ _MaxIters = 0
    /\ _RAbsTol = ""
    /\ _RRelTol = ""
    /\ _STol = ""
    /\ _snes = 0
    /\ _ksp = 0
    /\ _pc = 0
    /\ _linesearch = 0
    /\ nsnes = 0
    /\ initStatus = "none"
    /\ block = NoBlock
    /\ calls = << >>

-----------------------------------------------------------------------------
(***************************************************************************)
(*                     Element values (C++ double)                         *)
(* A double is modelled by the exact rational it holds, <<n, d>> in lowest *)
(* terms with d > 0; rounding is not modelled.                             *)
(***************************************************************************)
Abs(a) == IF a < 0 THEN -a ELSE a

RECURSIVE GCD(_, _)
GCD(a, b) == IF b = 0 THEN a ELSE GCD(b, a % b)

Rat(n, d) ==
    LET s == IF d < 0 THEN -1 ELSE 1
        g == GCD(Abs(n), Abs(d))
    IN <<(s * n) \div g, (s * d) \div g>>

Whole(n) == <<n, 1>>
Zero == Whole(0)

RAdd(x, y) == Rat(x[1] * y[2] + y[1] * x[2], x[2] * y[2])
RSub(x, y) == Rat(x[1] * y[2] - y[1] * x[2], x[2] * y[2])
RMul(x, y) == Rat(x[1] * y[1], x[2] * y[2])
RDiv(x, y) == Rat(x[1] * y[2], x[2] * y[1])
RNeg(x) == <<-x[1], x[2]>>

RECURSIVE SeqSum(_)
SeqSum(s) == IF Len(s) = 0 THEN Zero
             ELSE RAdd(SeqSum(SubSeq(s, 1, Len(s) - 1)), s[Len(s)])

\* The values an element of mat is followed through (a call whose result
\* leaves this set is outside the bounds of the model), the scalars given
\* to the calls, and what a read outside the buffer may deliver.
Vals == {Whole(0), Whole(1), Whole(2)}
ScalarVals == {Whole(1), Whole(2)}

-----------------------------------------------------------------------------
(***************************************************************************)
(*                  MatrixXd  (part_001, lines 114-501)                    *)
(***************************************************************************)
\* The data members (lines 497-500).
Matrix(vals, m, n, mn) == [_vals |-> vals, _M |-> m, _N |-> n, _MN |-> mn]

\* The constructors are declared at lines 119-122; their bodies are not in
\* the sources.  They are taken as the specification describes them: no
\* elements and zero dimensions, or m*n elements all 0.0 or all val.
MatrixXd0 == Matrix(<< >>, 0, 0, 0)
MatrixXd3(m, n, val) == Matrix([i \in 1..(m * n) |-> val], m, n, m * n)
MatrixXd2(m, n) == MatrixXd3(m, n, Zero)

\* VectorXd (Utils/VectorXd.h) is not in the sources either: a length _M and
\* _M elements, built filled with a value, read with a 1-based index.
Vector(vals, m) == [_vals |-> vals, _M |-> m]
VectorXd2(m, val) == Vector([i \in 1..m |-> val], m)

\* std::vector<double>::resize(len, fill): the first elements are kept, the
\* vector is cut or extended to len, and only added elements get fill.
VectorResize(v, len, fill) ==
    [i \in 1..len |-> IF i <= Len(v) THEN v[i] ELSE fill]

\* Lines 129-131 and 139-141.
Resize3(A, m, n, val) ==
    Matrix(VectorResize(A._vals, m * n, val), m, n, m * n)

Resize2(A, m, n) ==
    Matrix(VectorResize(A._vals, m * n, Zero), m, n, m * n)

\* Line 161.
Clean(A) == [A EXCEPT !._vals = << >>]

\* _vals[k-1] for a 1-based k (lines 185-194); g is what the read delivers
\* when k-1 is outside the buffer.
Elem(A, k, g) == IF k >= 1 /\ k <= Len(A._vals) THEN A._vals[k] ELSE g

\* operator()(i,j) (lines 170-180): _vals[(i-1)*_N+j-1].
At(A, i, j, g) == Elem(A, (i - 1) * A._N + j, g)

\* What a call leaves behind: the matrix, the returned value, how the call
\* ended, the diagnostic printed, whether it went outside a buffer, and the
\* Eigen routine it used.
NoRet == [kind |-> "none", mat |-> MatrixXd0, vec |-> Vector(<< >>, 0), num |-> Zero]
RetMatrix(m) == [NoRet EXCEPT !.kind = "matrix", !.mat = m]
RetVector(v) == [NoRet EXCEPT !.kind = "vector", !.vec = v]
RetNumber(x) == [NoRet EXCEPT !.kind = "number", !.num = x]

Out(A, r, st, text, ob, eig) ==
    [mat |-> A, ret |-> r, status |-> st, msg |-> text, oob |-> ob, eigen |-> eig]

Done(A) == Out(A, NoRet, "ok", "", FALSE, "")
Returns(A, r) == Out(A, r, "ok", "", FALSE, "")

\* MessagePrinter::PrintErrorTxt(text) followed by MessagePrinter::AsFem_Exit()
\* (both outside the sources): the text is printed and the process ends.
Fatal(A, text) == Out(A, NoRet, "exit", text, FALSE, "")

\* An access outside the buffer of a std::vector is undefined: the process
\* is killed, or it goes on, a read having delivered some value g and a
\* write having landed outside the vector.
Undefined(A, Result(_)) ==
    {Out(A, NoRet, "crash", "", TRUE, "")}
    \cup {[Result(g) EXCEPT !.oob = TRUE] : g \in Vals}

\* Lines 170-172: (*this)(i,j)=val through double& operator()(i,j).  The
\* caller gives 1 <= i <= _M and 1 <= j <= _N.
SetAt(A, i, j, val) ==
    LET k == (i - 1) * A._N + j
    IN IF k >= 1 /\ k <= Len(A._vals)
       THEN {Done([A EXCEPT !._vals[k] = val])}
       ELSE Undefined(A, LAMBDA g : Done(A))

\* Lines 178-180: the value of (*this)(i,j), through the const operator().
GetAt(A, i, j) ==
    LET k == (i - 1) * A._N + j
    IN IF k >= 1 /\ k <= Len(A._vals)
       THEN {Returns(A, RetNumber(At(A, i, j, Zero)))}
       ELSE Undefined(A, LAMBDA g : Returns(A, RetNumber(g)))

\* Lines 185-187: (*this)[k]=val through double& operator[](k), 1 <= k <= _MN.
SetElem(A, k, val) ==
    IF k >= 1 /\ k <= Len(A._vals)
    THEN {Done([A EXCEPT !._vals[k] = val])}
    ELSE Undefined(A, LAMBDA g : Done(A))

\* Lines 192-194: the value of (*this)[k], through the const operator[].
GetElem(A, k) ==
    IF k >= 1 /\ k <= Len(A._vals)
    THEN {Returns(A, RetNumber(Elem(A, k, Zero)))}
    ELSE Undefined(A, LAMBDA g : Returns(A, RetNumber(g)))

\* Lines 203-206: fill(_vals.begin(), _vals.end(), val).
AssignScalar(A, val) ==
    [A EXCEPT !._vals = [i \in 1..Len(A._vals) |-> val]]

\* The loops "for(int i=0;i<n;++i) A._vals[i]=F(i)": every index below n is
\* written; those inside the buffer change it.
Loop(A, n, F(_)) ==
    [A EXCEPT !._vals = [i \in 1..Len(A._vals) |->
                            IF i <= n THEN F(i) ELSE A._vals[i]]]

\* The outcomes of a call whose loop runs over the first n elements of the
\* buffers of the matrices in Ms.
LoopOuts(A, n, Ms, Result(_)) ==
    IF \E S \in Ms : n > Len(S._vals)
    THEN Undefined(A, Result)
    ELSE {Result(Zero)}

\* Lines 211-230: operator=(const MatrixXd &a).
AssignMatrix(A, a) ==
    IF A._M = 0 /\ A._N = 0 THEN
        LET B == Matrix(VectorResize(A._vals, a._M * a._N, Zero),
                        a._M, a._N, a._M * a._N)
        IN LoopOuts(B, B._MN, {B, a},
                    LAMBDA g : Done(Loop(B, B._MN, LAMBDA i : Elem(a, i, g))))
    ELSE IF A._M = a._M /\ A._N = a._N THEN
        LoopOuts(A, A._MN, {A, a},
                 LAMBDA g : Done(Loop(A, A._MN, LAMBDA i : Elem(a, i, g))))
    ELSE
        {Fatal(A, "a=b cant be applied for two matrix with different size")}

\* Lines 246-258: operator+(const MatrixXd &a).
Plus(A, a) ==
    LET temp == MatrixXd2(A._M, A._N)
    IN IF A._M = a._M /\ A._N = a._N THEN
           LoopOuts(A, A._MN, {temp, A, a},
               LAMBDA g : Returns(A, RetMatrix(
                   Loop(temp, A._MN, LAMBDA i : RAdd(Elem(A, i, g), Elem(a, i, g))))))
       ELSE
           {Fatal(A, "a+b cant be applied for two matrix with different size")}

\* Lines 264-267: operator+=(const double &val).
PlusAssignScalar(A, val) ==
    LoopOuts(A, A._MN, {A},
        LAMBDA g : Done(Loop(A, A._MN, LAMBDA i : RAdd(A._vals[i], val))))

\* A faulty variant of operator+=: the elements are added before the shapes
\* are compared.
PlusAssignMatrix_AddsFirst(A, a) ==
    IF A._M = a._M /\ A._N = a._N THEN
        LoopOuts(A, A._MN, {A, a},
            LAMBDA g : Done(Loop(A, A._MN, LAMBDA i : RAdd(A._vals[i], Elem(a, i, g)))))
    ELSE
        {Fatal(Loop(A, A._MN, LAMBDA i : RAdd(A._vals[i], Elem(a, i, Zero))),
               "a+b cant be applied for two matrix with different size")}

\* Lines 272-284: operator+=(const MatrixXd &a).
PlusAssignMatrix(A, a) ==
    IF A._M = a._M /\ A._N = a._N THEN
        LoopOuts(A, A._MN, {A, a},
            LAMBDA g : Done(Loop(A, A._MN, LAMBDA i : RAdd(A._vals[i], Elem(a, i, g)))))
    ELSE
        {Fatal(A, "a+b cant be applied for two matrix with different size")}

\* Lines 300-312: operator-(const MatrixXd &a).
Minus(A, a) ==
    LET temp == MatrixXd2(A._M, A._N)
    IN IF A._M = a._M /\ A._N = a._N THEN
           LoopOuts(A, A._MN, {temp, A, a},
               LAMBDA g : Returns(A, RetMatrix(
                   Loop(temp, A._MN, LAMBDA i : RSub(Elem(A, i, g), Elem(a, i, g))))))
       ELSE
           {Fatal(A, "a-b cant be applied for two matrix with different size")}

\* Lines 318-321: operator-=(const double &val).
MinusAssignScalar(A, val) ==
    LoopOuts(A, A._MN, {A},
        LAMBDA g : Done(Loop(A, A._MN, LAMBDA i : RSub(A._vals[i], val))))

\* Lines 326-338: operator-=(const MatrixXd &a).
MinusAssignMatrix(A, a) ==
    IF A._M = a._M /\ A._N = a._N THEN
        LoopOuts(A, A._MN, {A, a},
            LAMBDA g : Done(Loop(A, A._MN, LAMBDA i : RSub(A._vals[i], Elem(a, i, g)))))
    ELSE
        {Fatal(A, "a-b cant be applied for two matrix with different size")}

\* Does a pass over rows 1..rows and columns 1..cols of S read outside its
\* buffer?
ReadsOutside(S, rows, cols) ==
    \E i \in 1..rows, j \in 1..cols : (i - 1) * S._N + j > Len(S._vals)

\* Lines 354-370: operator*(const VectorXd &a).
TimesVector(A, a) ==
    LET Result(g) ==
            Returns(A, RetVector(Vector(
                [i \in 1..A._M |->
                    SeqSum([j \in 1..A._N |-> RMul(At(A, i, j, g), a._vals[j])])],
                A._M)))
    IN IF A._N # a._M THEN
           {Fatal(A, "A*b should be applied for A matrix has the same cols as b vector!")}
       ELSE IF ReadsOutside(A, A._M, A._N) THEN Undefined(A, Result)
       ELSE {Result(Zero)}

\* Lines 375-393: operator*(const MatrixXd &a).
TimesMatrix(A, a) ==
    LET temp == MatrixXd2(A._M, a._N)
        Result(g) ==
            Returns(A, RetMatrix(
                [temp EXCEPT !._vals =
                    [p \in 1..(A._M * a._N) |->
                        LET i == ((p - 1) \div a._N) + 1
                            j == ((p - 1) % a._N) + 1
                        IN SeqSum([k \in 1..a._M |->
                                      RMul(At(A, i, k, g), At(a, k, j, g))])]]))
    IN IF A._N # a._M THEN
           {Fatal(A, "A*B should be applied for A matrix has the same cols as the rows of B matrix!")}
       ELSE IF A._M >= 1 /\ a._N >= 1
                 /\ (ReadsOutside(A, A._M, a._M) \/ ReadsOutside(a, a._M, a._N))
            THEN Undefined(A, Result)
       ELSE {Result(Zero)}

\* Lines 399-402: operator*=(const double &val).
TimesAssignScalar(A, val) ==
    LoopOuts(A, A._MN, {A},
        LAMBDA g : Done(Loop(A, A._MN, LAMBDA i : RMul(A._vals[i], val))))

\* Lines 419-422: operator/=(const double &val), for val # 0.
DivAssignScalar(A, val) ==
    LoopOuts(A, A._MN, {A},
        LAMBDA g : Done(Loop(A, A._MN, LAMBDA i : RDiv(A._vals[i], val))))

\* Lines 426-428: fill(_vals.begin(), _vals.end(), 0.0).
SetZero(A) == [A EXCEPT !._vals = [i \in 1..Len(A._vals) |-> Zero]]

\* Lines 432-435: each element becomes 1.0*rand()/RAND_MAX, rand() an
\* integer of 0..RAND_MAX.  rs[i] is the i-th value rand() returns.
RAND_MAX == 32767
RandSamples == {0, RAND_MAX}

\* A faulty variant of setRandom: each element is 2.0*rand()/RAND_MAX.
SetRandom_Doubled(A) ==
    LET Result(rs) == Done(Loop(A, A._MN, LAMBDA i : Rat(2 * rs[i], RAND_MAX)))
        Rs == [1..Len(A._vals) -> RandSamples]
    IN IF A._MN > Len(A._vals)
       THEN {Out(A, NoRet, "crash", "", TRUE, "")}
            \cup {[Result(rs) EXCEPT !.oob = TRUE] : rs \in Rs}
       ELSE {Result(rs) : rs \in Rs}

\* Lines 432-435: setRandom().
SetRandom(A) ==
    LET Result(rs) == Done(Loop(A, A._MN, LAMBDA i : Rat(rs[i], RAND_MAX)))
        Rs == [1..Len(A._vals) -> RandSamples]
    IN IF A._MN > Len(A._vals)
       THEN {Out(A, NoRet, "crash", "", TRUE, "")}
            \cup {[Result(rs) EXCEPT !.oob = TRUE] : rs \in Rs}
       ELSE {Result(rs) : rs \in Rs}

\* Eigen::MatrixXd Mat(_M,_N) filled from (*this)(i,j) (lines 445-452 and
\* 465-470).
EigenCopy(A, g) == [i \in 1..A._M, j \in 1..A._N |-> At(A, i, j, g)]

\* The matrix E of order n without row r and column c.
EigenMinor(E, n, r, c) ==
    [i \in 1..(n - 1), j \in 1..(n - 1) |->
        E[IF i < r THEN i ELSE i + 1, IF j < c THEN j ELSE j + 1]]

Sign(k) == IF k % 2 = 0 THEN Whole(1) ELSE Whole(-1)

\* Eigen's determinant() of a square matrix of order n (1 for order 0).
RECURSIVE EigenDeterminant(_, _)
EigenDeterminant(E, n) ==
    IF n = 0 THEN Whole(1)
    ELSE IF n = 1 THEN E[1, 1]
    ELSE SeqSum([j \in 1..n |->
                   RMul(RMul(Sign(1 + j), E[1, j]),
                        EigenDeterminant(EigenMinor(E, n, 1, j), n - 1))])

\* Eigen's inverse() of a square matrix of order n with determinant d # 0.
EigenInverse(E, n, d) ==
    [i \in 1..n, j \in 1..n |->
        RDiv(RMul(Sign(i + j), EigenDeterminant(EigenMinor(E, n, j, i), n - 1)), d)]

\* A matrix with the elements of the Eigen matrix E, row by row (lines
\* 446 and 454-458).
FromEigen(E, m, n) ==
    Matrix([p \in 1..(m * n) |-> E[((p - 1) \div n) + 1, ((p - 1) % n) + 1]],
           m, n, m * n)

\* Lines 440-460: Inverse().  The inverse of a singular matrix has no finite
\* elements; it is returned as a value of kind "nonfinite".
Inverse(A) ==
    LET Result(g) ==
            LET E == EigenCopy(A, g)
                d == EigenDeterminant(E, A._M)
            IN IF d = Zero
               THEN Out(A, [NoRet EXCEPT !.kind = "nonfinite"], "ok", "", FALSE, "inverse")
               ELSE Out(A, RetMatrix(FromEigen(EigenInverse(E, A._M, d), A._M, A._N)),
                        "ok", "", FALSE, "inverse")
    IN IF A._M # A._N THEN
           {Fatal(A, "the inverse operation only works for square matrix")}
       ELSE IF ReadsOutside(A, A._M, A._N) THEN Undefined(A, Result)
       ELSE {Result(Zero)}

\* Lines 464-472: Det().  There is no test of the shape: a matrix that is
\* not square is handed to Eigen's determinant(), which is defined for
\* square matrices only: the process is stopped by Eigen's assertion, or
\* some number comes back.
Det(A) ==
    LET Result(g) ==
            IF A._M = A._N
            THEN Out(A, RetNumber(EigenDeterminant(EigenCopy(A, g), A._M)),
                     "ok", "", FALSE, "determinant")
            ELSE Out(A, RetNumber(g), "ok", "", FALSE, "determinant")
    IN IF ReadsOutside(A, A._M, A._N) THEN
           {[o EXCEPT !.eigen = "determinant"] : o \in Undefined(A, Result)}
       ELSE IF A._M # A._N THEN
           {Out(A, NoRet, "crash", "", FALSE, "determinant")}
           \cup {Result(g) : g \in Vals}
       ELSE {Result(Zero)}

\* Lines 477-485: Transpose().  temp(j,i)=(*this)(i,j) writes element
\* (j-1)*_M+i-1 of temp, whose _N is _M.
Transpose(A) ==
    LET temp == MatrixXd2(A._N, A._M)
        Result(g) ==
            Returns(A, RetMatrix(
                [temp EXCEPT !._vals =
                    [p \in 1..(A._N * A._M) |->
                        LET j == ((p - 1) \div A._M) + 1
                            i == ((p - 1) % A._M) + 1
                        IN At(A, i, j, g)]]))
    IN IF ReadsOutside(A, A._M, A._N) THEN Undefined(A, Result)
       ELSE {Result(Zero)}

\* The expression A.Transpose().Transpose(): Transpose() (lines 477-485) of
\* the temporary the first Transpose() returned.  A is the receiver of the
\* first call only.
TransposeTwice(A) ==
    UNION { IF t.status # "ok" THEN {t}
            ELSE { [o EXCEPT !.mat = A, !.oob = o.oob \/ t.oob] :
                   o \in Transpose(t.ret.mat) } :
            t \in Transpose(A) }

\* Lines 490-494: Transposed(): temp=Transpose(); Resize(temp.GetM(),
\* temp.GetN()); (*this)=temp.
Transposed(A) ==
    UNION { IF t.status # "ok" THEN {t}
            ELSE { [o EXCEPT !.oob = o.oob \/ t.oob] :
                   o \in AssignMatrix(Resize2(A, t.ret.mat._M, t.ret.mat._N),
                                      t.ret.mat) } :
            t \in Transpose(A) }

-----------------------------------------------------------------------------
(***************************************************************************)
(*                 The calls made on one matrix, one by one                *)
(***************************************************************************)
\* The shapes a matrix is given, and the matrices and vectors given as the
\* right-hand side of a call: filled with one value, or with 1, 2, 0, 1, ...
Shapes == {s \in (0..MaxLen) \X (0..MaxLen) : s[1] * s[2] <= MaxLen}

Ramp(len) == [i \in 1..len |-> Whole(i % 3)]

OperandMatrices ==
    {MatrixXd3(s[1], s[2], Whole(1)) : s \in Shapes}
    \cup {Matrix(Ramp(s[1] * s[2]), s[1], s[2], s[1] * s[2]) : s \in Shapes}

OperandVectors ==
    {VectorXd2(m, Whole(1)) : m \in 0..MaxLen}
    \cup {Vector(Ramp(m), m) : m \in 0..MaxLen}

\* A call and its arguments; the arguments a call does not take are 0,
\* 0.0, the empty matrix and the empty vector.
NoCall ==
    [name |-> "", m |-> 0, n |-> 0, val |-> Zero, a |-> MatrixXd0,
     x |-> Vector(<< >>, 0)]

\* The calls are made by one thread, one after the other; a call that ended
\* the process is the last one.  outs are the outcomes of the call c.
MakeCall(c, outs) ==
    /\ call = NoCall
    /\ status = "ok"
    /\ \E o \in outs :
        /\ \A i \in 1..Len(o.mat._vals) : o.mat._vals[i] \in Vals
        /\ mat' = o.mat
        /\ ret' = o.ret
        /\ status' = o.status
        /\ msg' = o.msg
        /\ oob' = o.oob
        /\ eigen' = o.eigen
    /\ call' = c
    /\ pre' = mat
    /\ UNCHANGED solverVars

CallResize2 ==
    \E s \in Shapes :
        MakeCall([NoCall EXCEPT !.name = "Resize(m,n)", !.m = s[1], !.n = s[2]],
                 {Done(Resize2(mat, s[1], s[2]))})

CallResize3 ==
    \E s \in Shapes, val \in ScalarVals :
        MakeCall([NoCall EXCEPT !.name = "Resize(m,n,val)", !.m = s[1], !.n = s[2],
                                !.val = val],
                 {Done(Resize3(mat, s[1], s[2], val))})

CallClean == MakeCall([NoCall EXCEPT !.name = "Clean"], {Done(Clean(mat))})

CallAssignScalar ==
    \E val \in ScalarVals :
        MakeCall([NoCall EXCEPT !.name = "operator=(double)", !.val = val],
                 {Done(AssignScalar(mat, val))})

CallAssignMatrix ==
    \E a \in OperandMatrices :
        MakeCall([NoCall EXCEPT !.name = "operator=(MatrixXd)", !.a = a],
                 AssignMatrix(mat, a))

CallPlus ==
    \E a \in OperandMatrices :
        MakeCall([NoCall EXCEPT !.name = "operator+(MatrixXd)", !.a = a], Plus(mat, a))

CallPlusAssignScalar ==
    \E val \in ScalarVals :
        MakeCall([NoCall EXCEPT !.name = "operator+=(double)", !.val = val],
                 PlusAssignScalar(mat, val))

CallPlusAssignMatrix ==
    \E a \in OperandMatrices :
        MakeCall([NoCall EXCEPT !.name = "operator+=(MatrixXd)", !.a = a],
                 PlusAssignMatrix(mat, a))

CallMinus ==
    \E a \in OperandMatrices :
        MakeCall([NoCall EXCEPT !.name = "operator-(MatrixXd)", !.a = a], Minus(mat, a))

CallMinusAssignScalar ==
    \E val \in ScalarVals :
        MakeCall([NoCall EXCEPT !.name = "operator-=(double)", !.val = val],
                 MinusAssignScalar(mat, val))

CallMinusAssignMatrix ==
    \E a \in OperandMatrices :
        MakeCall([NoCall EXCEPT !.name = "operator-=(MatrixXd)", !.a = a],
                 MinusAssignMatrix(mat, a))

CallTimesVector ==
    \E x \in OperandVectors :
        MakeCall([NoCall EXCEPT !.name = "operator*(VectorXd)", !.x = x],
                 TimesVector(mat, x))

CallTimesMatrix ==
    \E a \in OperandMatrices :
        MakeCall([NoCall EXCEPT !.name = "operator*(MatrixXd)", !.a = a],
                 TimesMatrix(mat, a))

CallTimesAssignScalar ==
    \E val \in ScalarVals :
        MakeCall([NoCall EXCEPT !.name = "operator*=(double)", !.val = val],
                 TimesAssignScalar(mat, val))

CallDivAssignScalar ==
    \E val \in ScalarVals :
        MakeCall([NoCall EXCEPT !.name = "operator/=(double)", !.val = val],
                 DivAssignScalar(mat, val))

CallSetAt ==
    \E i \in 1..mat._M, j \in 1..mat._N, val \in Vals :
        MakeCall([NoCall EXCEPT !.name = "operator()(i,j)=", !.m = i, !.n = j,
                                !.val = val],
                 SetAt(mat, i, j, val))

CallGetAt ==
    \E i \in 1..mat._M, j \in 1..mat._N :
        MakeCall([NoCall EXCEPT !.name = "operator()(i,j)", !.m = i, !.n = j],
                 GetAt(mat, i, j))

CallSetElem ==
    \E k \in 1..mat._MN, val \in Vals :
        MakeCall([NoCall EXCEPT !.name = "operator[](i)=", !.m = k, !.val = val],
                 SetElem(mat, k, val))

CallGetElem ==
    \E k \in 1..mat._MN :
        MakeCall([NoCall EXCEPT !.name = "operator[](i)", !.m = k],
                 GetElem(mat, k))

CallSetZero == MakeCall([NoCall EXCEPT !.name = "setZero"], {Done(SetZero(mat))})

CallSetRandom == MakeCall([NoCall EXCEPT !.name = "setRandom"], SetRandom(mat))

CallInverse == MakeCall([NoCall EXCEPT !.name = "Inverse"], Inverse(mat))

CallDet == MakeCall([NoCall EXCEPT !.name = "Det"], Det(mat))

CallTranspose == MakeCall([NoCall EXCEPT !.name = "Transpose"], Transpose(mat))

CallTransposeTwice ==
    MakeCall([NoCall EXCEPT !.name = "Transpose().Transpose()"], TransposeTwice(mat))

CallTransposed == MakeCall([NoCall EXCEPT !.name = "Transposed"], Transposed(mat))

\* The caller goes on to its next statement: the value the finished call
\* returned is a temporary and is gone.
Continue ==
    /\ call # NoCall
    /\ status = "ok"
    /\ call' = NoCall
    /\ pre' = mat
    /\ ret' = NoRet
    /\ msg' = ""
    /\ oob' = FALSE
    /\ eigen' = ""
    /\ UNCHANGED <<mat, status>>
    /\ UNCHANGED solverVars

\* A matrix just constructed.
MatrixInit ==
    /\ \E s \in Shapes :
          \/ /\ mat = MatrixXd0
             /\ call = [NoCall EXCEPT !.name = "MatrixXd()"]
          \/ /\ mat = MatrixXd2(s[1], s[2])
             /\ call = [NoCall EXCEPT !.name = "MatrixXd(m,n)", !.m = s[1], !.n = s[2]]
          \/ \E val \in ScalarVals :
                /\ mat = MatrixXd3(s[1], s[2], val)
                /\ call = [NoCall EXCEPT !.name = "MatrixXd(m,n,val)", !.m = s[1],
                                         !.n = s[2], !.val = val]
    /\ pre = MatrixXd0
    /\ ret = NoRet
    /\ status = "ok"
    /\ msg = ""
    /\ oob = FALSE
    /\ eigen = ""

MatrixNext ==
    \/ CallResize2
    \/ CallResize3
    \/ CallClean
    \/ CallAssignScalar
    \/ CallAssignMatrix
    \/ CallPlus
    \/ CallPlusAssignScalar
    \/ CallPlusAssignMatrix
    \/ CallMinus
    \/ CallMinusAssignScalar
    \/ CallMinusAssignMatrix
    \/ CallTimesVector
    \/ CallTimesMatrix
    \/ CallTimesAssignScalar
    \/ CallDivAssignScalar
    \/ CallSetAt
    \/ CallGetAt
    \/ CallSetElem
    \/ CallGetElem
    \/ CallSetZero
    \/ CallSetRandom
    \/ CallInverse
    \/ CallDet
    \/ CallTranspose
    \/ CallTransposeTwice
    \/ CallTransposed
    \/ Continue

\* No matrix is in play while the solver is set up, and no solver while the
\* matrix is exercised.
NoMatrix ==
    /\ mat = MatrixXd0
    /\ call = NoCall
    /\ pre = MatrixXd0
    /\ ret = NoRet
    /\ status = "ok"
    /\ msg = ""
    /\ oob = FALSE
    /\ eigen = ""

SolverNext ==
    /\ \E blk \in Blocks : NonlinearSolverInit(blk)
    /\ UNCHANGED matrixVars

InitSolver == SolverInit /\ NoMatrix

SpecSolver == InitSolver /\ [][SolverNext]_vars

InitMatrix == MatrixInit /\ SolverInit

SpecMatrix == InitMatrix /\ [][MatrixNext]_vars

-----------------------------------------------------------------------------
(***************************************************************************)
(*        What the calls of the most recent Init leave in force            *)
(***************************************************************************)
Initialised == nsnes > 0

\* Positions in calls of the calls to fn.
CallsTo(fn) == {i \in 1..Len(calls) : calls[i].fn = fn}

Last(S) == CHOOSE i \in S : \A j \in S : j <= i

\* The type given by the last SNESLineSearchSetType call on the line search
\* _linesearch names; "" when Init made no such call (the library's own
\* default stays).
LineSearchTypeInForce ==
    LET S == {i \in CallsTo("SNESLineSearchSetType") : calls[i].obj = _linesearch}
    IN IF S = {} THEN "" ELSE calls[Last(S)].type

\* The order given by the last SNESLineSearchSetOrder call on _linesearch;
\* 0 when there is none.
LineSearchOrderInForce ==
    LET S == {i \in CallsTo("SNESLineSearchSetOrder") : calls[i].obj = _linesearch}
    IN IF S = {} THEN 0 ELSE calls[Last(S)].ints[1]

-----------------------------------------------------------------------------
(***************************************************************************)
(*                    Claims about NonlinearSolver::Init                   *)
(***************************************************************************)
\* The table of section 4.2 of the specification, as written there.
C1_Table ==
    [st \in RecognisedSolverTypes |->
        CASE st = "NewtonRaphson"   -> "SNESLINESEARCHBASIC"
          [] st = "SNESNewtonLs"    -> "SNESLINESEARCHBT"
          [] st = "SNESNewtonTr"    -> "SNESLINESEARCHBASIC"
          [] st = "SNESLBfgs"       -> "SNESLINESEARCHCP"
          [] st = "SNESBroyden"     -> "SNESLINESEARCHBASIC"
          [] st = "SNESBadBroyden"  -> "SNESLINESEARCHL2"
          [] st = "SNESNewtonCG"    -> "SNESLINESEARCHCP"
          [] st = "SNESNewtonGMRES" -> "SNESLINESEARCHL2"]

\* C1: after Init with any of the eight solver-type tags and line-search tag
\* Default, the line-search type in force (the last SNESLineSearchSetType
\* call) is the one the table of the specification gives for that solver.
C1_DefaultLineSearchMatchesTable ==
    (Initialised /\ block._SolverType \in RecognisedSolverTypes
                 /\ block._LineSearchType = "LineSearchDefault")
    => LineSearchTypeInForce = C1_Table[block._SolverType]

\* Init has run for SNESNewtonLs with tag Default: the L2 pre-set of line 67
\* was made and BT is in force.
C1_Witness ==
    /\ Initialised
    /\ block._SolverType = "SNESNewtonLs"
    /\ block._LineSearchType = "LineSearchDefault"
    /\ \E i \in CallsTo("SNESLineSearchSetType") : calls[i].type = "SNESLINESEARCHL2"
    /\ LineSearchTypeInForce = "SNESLINESEARCHBT"

\* The 1:1 mapping of the explicit line-search tags, as the specification
\* states it.
C2_OneToOne ==
    [lt \in RecognisedLineSearchTypes \ {"LineSearchDefault"} |->
        CASE lt = "LineSearchBackTrace" -> "SNESLINESEARCHBT"
          [] lt = "LineSearchCP"        -> "SNESLINESEARCHCP"
          [] lt = "LineSearchL2"        -> "SNESLINESEARCHL2"
          [] lt = "LineSearchBasic"     -> "SNESLINESEARCHBASIC"]

\* C2: after Init with any of the eight solver-type tags and an explicit
\* line-search tag (BackTrace, CP, L2, Basic), the line-search type in force
\* is that tag's own type, whatever the solver type; the L2 pre-set of the
\* SNESNewtonLs branch does not survive.
C2_ExplicitTagMapsOneToOne ==
    (Initialised /\ block._SolverType \in RecognisedSolverTypes
                 /\ block._LineSearchType \in DOMAIN C2_OneToOne)
    => LineSearchTypeInForce = C2_OneToOne[block._LineSearchType]

\* Init has run for SNESNewtonLs with tag CP: L2 was pre-set, CP is in force.
C2_Witness ==
    /\ Initialised
    /\ block._SolverType = "SNESNewtonLs"
    /\ block._LineSearchType = "LineSearchCP"
    /\ \E i \in CallsTo("SNESLineSearchSetType") : calls[i].type = "SNESLINESEARCHL2"
    /\ LineSearchTypeInForce = "SNESLINESEARCHCP"

\* The methods the specification says use a line search.
C3_LineSearchMethods == RecognisedSolverTypes \ {"SNESNewtonTr"}

\* C3: Init obtains a line-search handle only for a method that uses a line
\* search; for SNESNewtonTr it never obtains one and never sets a
\* line-search type or order.
C3_TrustRegionHasNoLineSearch ==
    Initialised =>
        /\ CallsTo("SNESGetLineSearch") # {} => _SolverType \in C3_LineSearchMethods
        /\ _SolverType = "SNESNewtonTr" =>
              /\ CallsTo("SNESGetLineSearch") = {}
              /\ CallsTo("SNESLineSearchSetType") = {}
              /\ CallsTo("SNESLineSearchSetOrder") = {}

\* C9: whatever the solver-type and line-search tags, Init gives the SNES
\* the block's absolute, relative and step tolerances and its iteration
\* limit with -1 function evaluations, and gives the KSP tolerances 1e-10
\* and 1e-10, 500000 iterations, restart 1200 and the LU preconditioner;
\* each of these calls is made once, on the objects of the SNES just created.
C9_TolerancesIndependentOfBranch ==
    Initialised =>
        /\ \E i \in 1..Len(calls) :
              /\ CallsTo("SNESSetTolerances") = {i}
              /\ calls[i].obj = _snes
              /\ calls[i].reals = <<block._RAbsTol, block._RRelTol, block._STol>>
              /\ calls[i].ints = <<block._MaxIters, -1>>
        /\ \E i \in 1..Len(calls) :
              /\ CallsTo("KSPSetTolerances") = {i}
              /\ calls[i].obj = _ksp
              /\ calls[i].reals[1] = "1.0e-10"
              /\ calls[i].reals[2] = "1.0e-10"
              /\ calls[i].ints = <<500000>>
        /\ \E i \in 1..Len(calls) :
              /\ CallsTo("KSPGMRESSetRestart") = {i}
              /\ calls[i].obj = _ksp
              /\ calls[i].ints = <<1200>>
        /\ \E i \in 1..Len(calls) :
              /\ CallsTo("PCSetType") = {i}
              /\ calls[i].obj = _pc
              /\ calls[i].type = "PCLU"
        /\ _ksp = _snes /\ _pc = _ksp /\ _snes = nsnes

\* Init has run with tags that match no branch, and the SNES still received
\* the tolerances of its block.
C9_Witness ==
    /\ Initialised
    /\ block._SolverType = "OtherSolverType"
    /\ block._LineSearchType = "OtherLineSearchType"
    /\ block._RAbsTol # block._RRelTol
    /\ \E i \in CallsTo("SNESSetTolerances") :
          calls[i].reals = <<block._RAbsTol, block._RRelTol, block._STol>>

\* Number of SNESLineSearchSetOrder calls, and whether each of them comes
\* after a SNESLineSearchSetType call on the same line search.
C10_OrderCalls == CallsTo("SNESLineSearchSetOrder")

C10_EveryOrderAfterType ==
    \A i \in C10_OrderCalls :
        \E j \in CallsTo("SNESLineSearchSetType") :
            j < i /\ calls[j].obj = calls[i].obj

C10_CountAndResult ==
    /\ Cardinality(C10_OrderCalls) =
          IF block._SolverType \in {"NewtonRaphson", "SNESNewtonLs"} THEN 2 ELSE 1
    /\ Last(C10_OrderCalls) = Len(calls)
    /\ \A i \in C10_OrderCalls : calls[i].ints = <<block._LineSearchOrder>>
    /\ LineSearchOrderInForce = block._LineSearchOrder

-----------------------------------------------------------------------------
(***************************************************************************)
(*                         Claims about MatrixXd                           *)
(***************************************************************************)
\* C4: in every state reached by calls on a matrix, the buffer holds
\* GetM()*GetN() elements and _MN is its length, so no loop over 0.._MN-1
\* leaves the buffer.
C4_BufferLengthIsMN ==
    /\ Len(mat._vals) = mat._M * mat._N
    /\ mat._MN = Len(mat._vals)
    /\ ~oob

\* C5: after Resize(m,n,val) on a matrix in any state, the matrix is m by n,
\* holds m*n elements and every element is val; after Resize(m,n) every
\* element is 0.0 (the val of a call without one).
C5_ResizeFillsEveryElement ==
    call.name \in {"Resize(m,n)", "Resize(m,n,val)"} =>
        /\ mat._M = call.m
        /\ mat._N = call.n
        /\ Len(mat._vals) = call.m * call.n
        /\ \A i \in 1..Len(mat._vals) : mat._vals[i] = call.val

\* The matrix T holds, element by element, what the matrix S holds.
C6_CopyOf(T, S) ==
    /\ T._M = S._M
    /\ T._N = S._N
    /\ Len(T._vals) = S._M * S._N
    /\ \A i \in 1..S._M, j \in 1..S._N :
          LET k == (i - 1) * S._N + j IN T._vals[k] = S._vals[k]

\* C6: target = source.  A target with _M = 0 and _N = 0 ends with the shape
\* and the elements of the source; a target of another shape ends as a copy
\* of a source of the same shape; a target of another shape given a source
\* of a different shape prints a diagnostic and ends the process, unmodified.
C6_MatrixAssignment ==
    call.name = "operator=(MatrixXd)" =>
        IF pre._M = 0 /\ pre._N = 0 THEN
            status = "ok" /\ C6_CopyOf(mat, call.a)
        ELSE IF pre._M = call.a._M /\ pre._N = call.a._N THEN
            status = "ok" /\ C6_CopyOf(mat, call.a)
        ELSE
            status = "exit" /\ msg # "" /\ mat = pre

\* The shape condition of a binary operator is violated by its operands.
C7_ShapesMismatch ==
    \/ /\ call.name \in {"operator+(MatrixXd)", "operator-(MatrixXd)",
                         "operator+=(MatrixXd)", "operator-=(MatrixXd)"}
       /\ ~(pre._M = call.a._M /\ pre._N = call.a._N)
    \/ /\ call.name = "operator*(MatrixXd)"
       /\ pre._N # call.a._M
    \/ /\ call.name = "operator*(VectorXd)"
       /\ pre._N # call.x._M

\* C7: A+B, A-B, A+=B, A-=B with different shapes, A*B with A's columns
\* different from B's rows and A*v with A's columns different from v's
\* length end the process with a diagnostic; no result was produced, no
\* element was read or combined, and the receiver is as it was.
C7_ShapeCheckedBeforeArithmetic ==
    C7_ShapesMismatch =>
        /\ status = "exit"
        /\ msg # ""
        /\ mat = pre
        /\ ret = NoRet
        /\ ~oob

\* A += B was called on a matrix with elements and a B of another shape.
C7_Witness ==
    /\ call.name = "operator+=(MatrixXd)"
    /\ Len(pre._vals) > 0
    /\ Len(call.a._vals) > 0
    /\ pre._M # call.a._M
    /\ \E i \in 1..Len(call.a._vals) : call.a._vals[i] # Zero
    /\ status = "exit"
    /\ mat = pre

\* C8: Det() and Inverse() of a matrix with GetM() # GetN() end the process
\* with a diagnostic; the matrix is not handed to Eigen and nothing is
\* returned.
C8_NonSquareIsFatal ==
    (call.name \in {"Det", "Inverse"} /\ pre._M # pre._N) =>
        /\ status = "exit"
        /\ msg # ""
        /\ eigen = ""
        /\ ret = NoRet

\* The buffer of A holds _M*_N elements and _MN is their number.
BufferMatchesShape(A) ==
    /\ Len(A._vals) = A._M * A._N
    /\ A._MN = A._M * A._N

\* The offset the specification gives for (i,j) in a matrix with the shape
\* of A.
C11_Offset(A, i, j) == (i - 1) * A._N + (j - 1)

\* What a finished element access shows: a value written through
\* operator() is the value operator[] reads at offset+1, a value written
\* through operator[] is the value operator() reads at the pairs with that
\* offset, and a read returns the element at the offset.
C11_Coherent ==
    /\ call.name = "operator()(i,j)=" =>
          /\ status = "ok"
          /\ \A g \in Vals :
                Elem(mat, C11_Offset(pre, call.m, call.n) + 1, g) = call.val
    /\ call.name = "operator[](i)=" =>
          /\ status = "ok"
          /\ \A i \in 1..pre._M, j \in 1..pre._N :
                C11_Offset(pre, i, j) + 1 = call.m =>
                    \A g \in Vals : At(mat, i, j, g) = call.val
    /\ call.name = "operator()(i,j)" =>
          /\ status = "ok"
          /\ \A g \in Vals :
                ret = RetNumber(Elem(pre, C11_Offset(pre, call.m, call.n) + 1, g))
    /\ call.name = "operator[](i)" =>
          /\ status = "ok"
          /\ \A i \in 1..pre._M, j \in 1..pre._N :
                C11_Offset(pre, i, j) + 1 = call.m =>
                    \A g \in Vals : ret = RetNumber(At(pre, i, j, g))

\* C11: for 1 <= i <= M and 1 <= j <= N the offset (i-1)*N+(j-1) of (i,j)
\* lies in 0..M*N-1, different pairs have different offsets, and
\* operator()(i,j) and operator[]((i-1)*N+j) are the same element: what is
\* written through one is read through the other.
C11_IndexMapping ==
    /\ \A i \in 1..mat._M, j \in 1..mat._N :
          /\ C11_Offset(mat, i, j) \in 0..(mat._M * mat._N - 1)
          /\ \A i2 \in 1..mat._M, j2 \in 1..mat._N :
                <<i, j>> # <<i2, j2>> =>
                    C11_Offset(mat, i, j) # C11_Offset(mat, i2, j2)
    /\ C11_Coherent

\* The same for the accesses made on a matrix whose buffer matches its
\* shape.
C11_WhereBufferMatchesShape ==
    BufferMatchesShape(pre) => C11_Coherent

\* A value was written through operator()(2,1) of a matrix with two
\* columns and more than one row, and operator[] reads it at 3.
C11_Reached ==
    /\ call.name = "operator()(i,j)="
    /\ pre._N = 2 /\ call.m = 2 /\ call.n = 1
    /\ call.val # pre._vals[3]
    /\ status = "ok"
    /\ mat._vals[3] = call.val

\* The matrix T is the transpose of the matrix S: the shape of S turned
\* round, S._M*S._N elements, and element (j,i) of T is element (i,j) of S.
C12_TransposeOf(T, S) ==
    /\ T._M = S._N
    /\ T._N = S._M
    /\ T._MN = S._N * S._M
    /\ Len(T._vals) = S._N * S._M
    /\ \A i \in 1..S._M, j \in 1..S._N, g \in Vals :
          At(T, j, i, g) = At(S, i, j, g)

C12_Holds ==
    /\ call.name = "Transpose" =>
          /\ status = "ok"
          /\ ret.kind = "matrix"
          /\ C12_TransposeOf(ret.mat, pre)
          /\ mat = pre
    /\ call.name = "Transpose().Transpose()" =>
          /\ status = "ok"
          /\ ret.kind = "matrix"
          /\ ret.mat._M = pre._M
          /\ ret.mat._N = pre._N
          /\ Len(ret.mat._vals) = pre._M * pre._N
          /\ \A i \in 1..pre._M, j \in 1..pre._N, g \in Vals :
                At(ret.mat, i, j, g) = At(pre, i, j, g)

\* C12: for a matrix A of any shape (m,n), square or not, empty or not,
\* A.Transpose() has shape (n,m) and its element (j,i) is A(i,j), and
\* A.Transpose().Transpose() has shape (m,n) and the elements of A.
C12_TransposeIsAnInvolution == C12_Holds

\* The same for a receiver whose buffer matches its shape.
C12_WhereBufferMatchesShape ==
    BufferMatchesShape(pre) => C12_Holds

\* A 1 by 3 matrix with three different elements was transposed twice and
\* came back.
C12_Reached ==
    /\ call.name = "Transpose().Transpose()"
    /\ pre._M = 1 /\ pre._N = 3
    /\ pre._vals[1] # pre._vals[2] /\ pre._vals[2] # pre._vals[3]
    /\ status = "ok"
    /\ ret.mat._vals = pre._vals

-----------------------------------------------------------------------------
(***************************************************************************)
(*      Claims about Init with an unrecognised tag and about handles       *)
(***************************************************************************)
\* Init made no SNESSetType and no SNESLineSearchSetType call, and gave the
\* SNES and the KSP of this Init their tolerances.
C13_SilentFallback ==
    /\ CallsTo("SNESSetType") = {}
    /\ CallsTo("SNESLineSearchSetType") = {}
    /\ \E i \in CallsTo("SNESSetTolerances") :
          /\ calls[i].obj = _snes
          /\ calls[i].reals = <<block._RAbsTol, block._RRelTol, block._STol>>
          /\ calls[i].ints = <<block._MaxIters, SNESMaxFuncs>>
    /\ \E i \in CallsTo("KSPSetTolerances") : calls[i].obj = _ksp
    /\ \E i \in CallsTo("KSPGMRESSetRestart") : calls[i].obj = _ksp
    /\ \E i \in CallsTo("PCSetType") : calls[i].obj = _pc

\* C13: given a solver-type tag that is none of the eight, Init sets no
\* solver method and no line-search type, still configures the tolerances
\* and the linear solve, and returns without an error.
C13_UnrecognisedTagFallsBack ==
    (Initialised /\ block._SolverType \notin RecognisedSolverTypes)
    => (C13_SilentFallback /\ initStatus = "returned")

\* What Init does with an unrecognised tag apart from how it ends.
C13_CallsMade ==
    (Initialised /\ block._SolverType \notin RecognisedSolverTypes)
    => C13_SilentFallback

\* The line-search calls of the most recent Init.
C14_LineSearchCalls ==
    CallsTo("SNESLineSearchSetType") \cup CallsTo("SNESLineSearchSetOrder")

\* C14: every line-search call of an Init, first or second, with any
\* solver-type tag, is made on the line search fetched from the SNES that
\* this Init created; never on a handle no statement assigned, never on
\* the line search of an earlier SNES.
C14_LineSearchOfThisInit ==
    Initialised =>
        \A i \in C14_LineSearchCalls :
            /\ calls[i].obj = _snes
            /\ \E j \in CallsTo("SNESGetLineSearch") :
                  j < i /\ calls[j].obj = _snes

\* The same for the recognised solver-type tags.
C14_WhereTagIsRecognised ==
    (Initialised /\ block._SolverType \in RecognisedSolverTypes)
    => \A i \in C14_LineSearchCalls :
            /\ calls[i].obj = _snes
            /\ \E j \in CallsTo("SNESGetLineSearch") :
                  j < i /\ calls[j].obj = _snes

\* A second Init, with a recognised tag, made its line-search calls on the
\* line search of the second SNES.
C14_Reached ==
    /\ nsnes = 2
    /\ block._SolverType = "SNESLBfgs"
    /\ C14_LineSearchCalls # {}
    /\ \A i \in C14_LineSearchCalls : calls[i].obj = 2

-----------------------------------------------------------------------------
(***************************************************************************)
(*            Claims about Transposed, setRandom and operator*            *)
(***************************************************************************)
C15_Holds ==
    call.name = "Transposed" =>
        /\ status = "ok"
        /\ msg = ""
        /\ ~oob
        /\ C12_TransposeOf(mat, pre)
        /\ mat \in {t.ret.mat : t \in Transpose(pre)}

\* C15: after A.Transposed() on a matrix in any state the receiver has the
\* shape (n,m), its element (j,i) is the former A(i,j), it is the matrix
\* A.Transpose() returned, and the call did not end in the shape-mismatch
\* exit of the assignment it makes.
C15_TransposedInPlace == C15_Holds

\* The same for a receiver whose buffer matches its shape.
C15_WhereBufferMatchesShape ==
    BufferMatchesShape(pre) => C15_Holds

\* A 3 by 1 matrix with three different elements was transposed in place.
C15_Reached ==
    /\ call.name = "Transposed"
    /\ pre._M = 3 /\ pre._N = 1
    /\ pre._vals[1] # pre._vals[2] /\ pre._vals[2] # pre._vals[3]
    /\ status = "ok"
    /\ mat._M = 1 /\ mat._N = 3

\* x < y and x <= y for two values <<n, d>> with d > 0.
RLess(x, y) == x[1] * y[2] < y[1] * x[2]
RLessEq(x, y) == x[1] * y[2] <= y[1] * x[2]

\* C16: after setRandom() the shape is as before and every element x has
\* 0 <= x < 1, whatever rand() returned.
C16_ElementsInHalfOpenUnitInterval ==
    (call.name = "setRandom" /\ status = "ok") =>
        /\ mat._M = pre._M
        /\ mat._N = pre._N
        /\ Len(mat._vals) = Len(pre._vals)
        /\ \A i \in 1..Len(mat._vals) :
              RLessEq(Zero, mat._vals[i]) /\ RLess(mat._vals[i], Whole(1))

\* The quotient 1.0*r/RAND_MAX over every r that rand() can return: never
\* below 0, never above 1, and 1 exactly for r = RAND_MAX.
C16_EveryGeneratorValue ==
    \A r \in 0..RAND_MAX :
        LET x == Rat(r, RAND_MAX)
        IN /\ RLessEq(Zero, x)
           /\ RLessEq(x, Whole(1))
           /\ RLess(x, Whole(1)) <=> r < RAND_MAX

\* C16 as amended: after setRandom() has returned, the shape is as before
\* and every element x has 0 <= x <= 1; x is r/RAND_MAX for the r that
\* rand() returned, which is below 1 for every r except RAND_MAX.
C16_ElementsInClosedUnitInterval ==
    /\ (call.name = "setRandom" /\ status = "ok") =>
          /\ mat._M = pre._M
          /\ mat._N = pre._N
          /\ Len(mat._vals) = Len(pre._vals)
          /\ \A i \in 1..Len(mat._vals) :
                RLessEq(Zero, mat._vals[i]) /\ RLessEq(mat._vals[i], Whole(1))
    /\ C16_EveryGeneratorValue

\* setRandom() ran on a matrix with elements while rand() returned RAND_MAX.
C16_Reached ==
    /\ call.name = "setRandom"
    /\ status = "ok"
    /\ Len(mat._vals) > 1
    /\ \E i \in 1..Len(mat._vals) : mat._vals[i] = Whole(1)
    /\ \E i \in 1..Len(mat._vals) : mat._vals[i] = Zero

\* The sum over p = 1..k of A(i,p)*B(p,j), and of A(i,p)*v(p).
C17_MatrixEntry(A, B, i, j, g) ==
    SeqSum([p \in 1..A._N |-> RMul(At(A, i, p, g), At(B, p, j, g))])

C17_VectorEntry(A, v, i, g) ==
    SeqSum([p \in 1..A._N |-> RMul(At(A, i, p, g), v._vals[p])])

C17_Holds ==
    /\ (call.name = "operator*(MatrixXd)" /\ pre._N = call.a._M) =>
          /\ status = "ok"
          /\ ret.kind = "matrix"
          /\ ret.mat._M = pre._M
          /\ ret.mat._N = call.a._N
          /\ Len(ret.mat._vals) = pre._M * call.a._N
          /\ \A i \in 1..pre._M, j \in 1..call.a._N, g \in Vals :
                At(ret.mat, i, j, g) = C17_MatrixEntry(pre, call.a, i, j, g)
          /\ mat = pre
    /\ (call.name = "operator*(VectorXd)" /\ pre._N = call.x._M) =>
          /\ status = "ok"
          /\ ret.kind = "vector"
          /\ ret.vec._M = pre._M
          /\ Len(ret.vec._vals) = pre._M
          /\ \A i \in 1..pre._M, g \in Vals :
                ret.vec._vals[i] = C17_VectorEntry(pre, call.x, i, g)
          /\ mat = pre

\* C17: for A of shape (m,k) and B of shape (k,n), A*B is the (m,n) matrix
\* whose element (i,j) is the sum over p of A(i,p)*B(p,j); for a vector v of
\* length k, A*v is the vector of length m whose element i is the sum over
\* p of A(i,p)*v(p); A is as it was.
C17_ProductValues == C17_Holds

\* The same for a receiver whose buffer matches its shape.
C17_WhereBufferMatchesShape ==
    BufferMatchesShape(pre) => C17_Holds

\* A 2 by 2 matrix with different rows was multiplied by a 2 by 2 matrix
\* with different columns, and the product has an element above 2.
C17_Reached ==
    /\ call.name = "operator*(MatrixXd)"
    /\ pre._M = 2 /\ pre._N = 2
    /\ call.a._M = 2 /\ call.a._N = 2
    /\ pre._vals[1] # pre._vals[3]
    /\ call.a._vals[1] # call.a._vals[2]
    /\ status = "ok"
    /\ \E p \in 1..4 : RLess(Whole(2), ret.mat._vals[p])

====
